---- MODULE Spec2Model ----
(***************************************************************************)
(* wishday-backend: the users / contacts / assistant request handlers run   *)
(* against the relational store.  Every handler is a process that runs      *)
(* synchronously up to its next await; each await (a store query, the       *)
(* identity provider, a model invocation, a tool execution) is one step.    *)
(***************************************************************************)
EXTENDS Integers, Sequences, FiniteSets, TLC

\* ------------------------------------------------------------------ bounds
NumProcs == 2       \* requests in flight at the same time
MaxRequests == 4    \* requests received in one behaviour

Procs == 1 .. NumProcs

\* ------------------------------------------------------- JSON body values
Undefined == [t |-> "undefined", n |-> 0, s |-> ""]
Null == [t |-> "null", n |-> 0, s |-> ""]
Num(i) == [t |-> "int", n |-> i, s |-> ""]
Frac == [t |-> "frac", n |-> 1, s |-> ""]          \* a number such as 1.5
Str(x) == [t |-> "string", n |-> 0, s |-> x]

Body(nm, mo, dy, yr) ==
    [name |-> nm, birthdayMonth |-> mo, birthdayDay |-> dy, birthdayYear |-> yr]

Fields == {"name", "birthdayMonth", "birthdayDay", "birthdayYear"}

\* request bodies offered to POST /api/contacts
CreateBodies ==
    { Body(Str("Ada"), Num(12), Num(10), Num(1815)),
      Body(Str("Ada"), Num(12), Num(10), Num(0)),
      Body(Str("Bob"), Num(2), Num(31), Undefined),
      Body(Str(""), Num(12), Num(10), Num(1815)),
      Body(Str("Ada"), Num(13), Num(10), Null),
      Body(Str("Ada"), Num(12), Num(0), Null),
      Body(Str("Ada"), Num(12), Undefined, Null),
      Body(Str("Ada"), Num(12), Num(10), Frac) }

\* request bodies offered to PUT /api/contacts/:id
UpdateBodies ==
    { Body(Undefined, Undefined, Undefined, Undefined),
      Body(Str("Bob"), Undefined, Undefined, Undefined),
      Body(Str(""), Undefined, Undefined, Undefined),
      Body(Undefined, Num(2), Undefined, Undefined),
      Body(Undefined, Num(0), Undefined, Undefined),
      Body(Undefined, Undefined, Num(31), Undefined),
      Body(Undefined, Undefined, Num(32), Undefined),
      Body(Undefined, Undefined, Undefined, Null),
      Body(Undefined, Undefined, Undefined, Frac),
      Body(Undefined, Num(2), Num(31), Undefined) }

\* ------------------------------------------------------------ identities
NoAuth == "none"                    \* req.auth carries no userId
ClerkIds == {"clerk_A", "clerk_B"}
Auths == ClerkIds \cup {NoAuth}
NoEmail == "undefined"              \* emailAddresses[0] is missing
Emails == {"ada@x.io", NoEmail}
NullId == 0                         \* no row / null id
Uuids == 1 .. MaxRequests           \* values gen_random_uuid() hands out
ParamIds == {1}                     \* values of the :id route parameter

\* ------------------------------------------------------------- validation
IsInt(v) == v.t = "int"

nameOk(v) == v.t = "string" /\ v.s # ""
\* mutant: min(0) instead of min(1)
monthFromZero(v) == IsInt(v) /\ v.n >= 0 /\ v.n <= 12
monthOk(v) == IsInt(v) /\ v.n >= 1 /\ v.n <= 12
dayOk(v) == IsInt(v) /\ v.n >= 1 /\ v.n <= 31
yearOk(v) == v.t \in {"int", "null", "undefined"}

\* fields of the body that raise an issue under createContactSchema
createContactIssues(b) ==
    {f \in Fields :
        \/ f = "name" /\ ~nameOk(b.name)
        \/ f = "birthdayMonth" /\ ~monthOk(b.birthdayMonth)
        \/ f = "birthdayDay" /\ ~dayOk(b.birthdayDay)
        \/ f = "birthdayYear" /\ ~yearOk(b.birthdayYear)}

createContactSchema(b) == createContactIssues(b) = {}

Optional(ok, v) == v.t = "undefined" \/ ok

\* keys of the parsed data: the keys of the shape that the body carries
ParsedKeys(b) == {f \in Fields : b[f].t # "undefined"}

\* fields that raise an issue under updateContactSchema; "" is the path of
\* the refinement's issue
updateContactIssues(b) ==
    LET fieldIssues ==
            {f \in Fields :
                \/ f = "name" /\ ~Optional(nameOk(b.name), b.name)
                \/ f = "birthdayMonth"
                    /\ ~Optional(monthOk(b.birthdayMonth), b.birthdayMonth)
                \/ f = "birthdayDay"
                    /\ ~Optional(dayOk(b.birthdayDay), b.birthdayDay)
                \/ f = "birthdayYear" /\ ~yearOk(b.birthdayYear)}
    IN  IF fieldIssues # {} THEN fieldIssues
        ELSE IF Cardinality(ParsedKeys(b)) > 0 THEN {} ELSE {""}

updateContactSchema(b) == updateContactIssues(b) = {}

\* --------------------------------------------------------------- responses
Resp(st, err, issues, rows) ==
    [status |-> st, error |-> err, errors |-> issues, data |-> rows]

NoResp == Resp(0, "", {}, {})
Unauthorized == Resp(401, "Unauthorized", {}, {})
UserNotFound == Resp(404, "User not found", {}, {})
ContactNotFound == Resp(404, "Contact not found", {}, {})
ValidationFailed(issues) == Resp(400, "", issues, {})
MessagesRequired == Resp(400, "Messages array is required", {}, {})
InternalError == Resp(500, "Internal server error", {}, {})

\* ------------------------------------------------------------------- state
VARIABLES
    users,              \* rows of table users
    contactsBirthdays,  \* rows of table contacts_birthdays
    nextUserId,         \* the next id gen_random_uuid() gives a users row
    nextContactId,      \* the next id gen_random_uuid() gives a contact row
    now,                \* the clock read by new Date() and by now()
    req,                \* per process: the request it handles and its locals
    received,           \* number of requests received so far
    createdBy           \* history: the identity whose POST created contact id

vars == <<users, contactsBirthdays, nextUserId, nextContactId, now, req, received, createdBy>>

EmptyBody == Body(Undefined, Undefined, Undefined, Undefined)

\* values of req.body.messages
MessageValues ==
    {"undefined", "null", "emptyString", "string", "object", "emptyArray", "array"}

IdleReq ==
    [kind |-> "none", auth |-> NoAuth, id |-> NullId, body |-> EmptyBody,
     messages |-> "undefined", pc |-> "idle", user |-> NullId, t |-> 0,
     seen |-> 0, email |-> NoEmail, resp |-> NoResp, dbOps |-> 0,
     modelCalls |-> 0, toolCalls |-> 0, rows |-> {}, toolOut |-> ""]

NewReq(k, a, i, b, m) ==
    [IdleReq EXCEPT !.kind = k, !.auth = a, !.id = i, !.body = b, !.messages = m]

Init ==
    /\ users = {}
    /\ contactsBirthdays = {}
    /\ nextUserId = 1
    /\ nextContactId = 1
    /\ now = 1
    /\ req = [p \in Procs |-> IdleReq]
    /\ received = 0
    /\ createdBy = [i \in Uuids |-> NoAuth]

\* res.json()/res.send() write the response in the step that produces it, so
\* a finished handler leaves its process before any other step is scheduled
NoneDone == \A q \in Procs : req[q].pc # "done"

\* the processes are interchangeable: the lowest free one takes the request
CanReceive(p) ==
    /\ NoneDone
    /\ req[p].pc = "idle"
    /\ \A q \in Procs : q < p => req[q].pc # "idle"
    /\ received < MaxRequests

CanStep(p, at) ==
    /\ NoneDone
    /\ req[p].pc = at

Finish(r, response) == [r EXCEPT !.pc = "done", !.resp = response]

Deliver(p) ==
    /\ req[p].pc = "done"
    /\ req' = [req EXCEPT ![p] = IdleReq]
    /\ UNCHANGED <<users, contactsBirthdays, nextUserId, nextContactId, now, received, createdBy>>

\* ------------------------------------------------------- usersController
NullEmail == "null"

\* mutant: a plain INSERT, without the conflict clause
insertUser(rows, clerkId, email, setAt, uuid, dbNow) ==
    rows \cup
    { [id |-> uuid + Cardinality(rows), clerkUserId |-> clerkId,
       email |-> IF email = NoEmail THEN NullEmail ELSE email,
       createdAt |-> dbNow, updatedAt |-> dbNow] }

\* mutant: on conflict the row is replaced by a freshly inserted one
replaceUser(rows, clerkId, email, setAt, uuid, dbNow) ==
    {u \in rows : u.clerkUserId # clerkId} \cup
    { [id |-> uuid + Cardinality(rows), clerkUserId |-> clerkId,
       email |-> IF email = NoEmail THEN NullEmail ELSE email,
       createdAt |-> dbNow, updatedAt |-> dbNow] }

\* INSERT ... ON CONFLICT (clerk_user_id) DO UPDATE SET email, updated_at;
\* an undefined value is left out of the inserted columns and of the SET list
upsertUser(rows, clerkId, email, setAt, uuid, dbNow) ==
    IF \E u \in rows : u.clerkUserId = clerkId
    THEN { IF u.clerkUserId = clerkId
           THEN [u EXCEPT !.email = IF email = NoEmail THEN @ ELSE email,
                          !.updatedAt = setAt]
           ELSE u : u \in rows }
    ELSE rows \cup
         { [id |-> uuid, clerkUserId |-> clerkId,
            email |-> IF email = NoEmail THEN NullEmail ELSE email,
            createdAt |-> dbNow, updatedAt |-> dbNow] }

syncUser(p, a) ==
    /\ CanReceive(p)
    /\ received' = received + 1
    /\ LET r == NewReq("syncUser", a, NullId, EmptyBody, "undefined")
       IN  req' = [req EXCEPT ![p] =
                IF a = NoAuth THEN Finish(r, Unauthorized)
                ELSE [r EXCEPT !.pc = "clerkGetUser"]]
    /\ UNCHANGED <<users, contactsBirthdays, nextUserId, nextContactId, now, createdBy>>

\* clerkClient.users.getUser resolves; the upsert statement is built, with
\* new Date() for updatedAt, and sent
clerkGetUser(p, e) ==
    /\ CanStep(p, "clerkGetUser")
    /\ req' = [req EXCEPT ![p] = [@ EXCEPT !.pc = "upsert", !.email = e, !.t = now]]
    /\ now' = now + 1
    /\ UNCHANGED <<users, contactsBirthdays, nextUserId, nextContactId, received, createdBy>>

\* clerkClient.users.getUser rejects: the catch block answers 500
clerkGetUserFails(p) ==
    /\ CanStep(p, "clerkGetUser")
    /\ req' = [req EXCEPT ![p] = Finish(@, InternalError)]
    /\ UNCHANGED <<users, contactsBirthdays, nextUserId, nextContactId, now, received, createdBy>>

upsert(p) ==
    /\ CanStep(p, "upsert")
    /\ LET r == req[p]
           inserts == ~\E u \in users : u.clerkUserId = r.auth
       IN  /\ users' = upsertUser(users, r.auth, r.email, r.t, nextUserId, now)
           /\ nextUserId' = IF inserts THEN nextUserId + 1 ELSE nextUserId
           /\ now' = IF inserts THEN now + 1 ELSE now
           /\ req' = [req EXCEPT ![p] =
                Finish([r EXCEPT !.dbOps = @ + 1], Resp(200, "", {}, {}))]
    /\ UNCHANGED <<contactsBirthdays, nextContactId, received, createdBy>>

\* ---------------------------------------------------- contactsController
\* mutant: the where clause forgets the owner
whereIdOnly(c, id, userId) == c.id = id

\* and(eq(contactsBirthdays.id, id), eq(contactsBirthdays.userId, userRecord.id))
whereIdAndUser(c, id, userId) == c.id = id /\ c.userId = userId

\* the values createContact inserts (birthdayYear ?? null)
insertValues(userId, b) ==
    [userId |-> userId,
     name |-> b.name.s,
     birthdayYear |-> IF b.birthdayYear.t = "int" THEN b.birthdayYear ELSE Null,
     birthdayMonth |-> b.birthdayMonth.n,
     birthdayDay |-> b.birthdayDay.n]

\* the row the store builds for the inserted values: id and both timestamps
\* take their column defaults
insertedRow(v, uuid, dbNow) ==
    [id |-> uuid, userId |-> v.userId, name |-> v.name,
     birthdayYear |-> v.birthdayYear, birthdayMonth |-> v.birthdayMonth,
     birthdayDay |-> v.birthdayDay, createdAt |-> dbNow, updatedAt |-> dbNow]

\* mutant: birthdayYear ?? null in the update as in the insert
setUpdateDataYearNull(c, b, t) ==
    [c EXCEPT
        !.updatedAt = t,
        !.name = IF b.name.t # "undefined" THEN b.name.s ELSE @,
        !.birthdayYear = IF b.birthdayYear.t = "int" THEN b.birthdayYear ELSE Null,
        !.birthdayMonth = IF b.birthdayMonth.t # "undefined" THEN b.birthdayMonth.n ELSE @,
        !.birthdayDay = IF b.birthdayDay.t # "undefined" THEN b.birthdayDay.n ELSE @]

\* .set(updateData): updatedAt and the fields the body provides
setUpdateData(c, b, t) ==
    [c EXCEPT
        !.updatedAt = t,
        !.name = IF b.name.t # "undefined" THEN b.name.s ELSE @,
        !.birthdayYear = IF b.birthdayYear.t # "undefined" THEN b.birthdayYear ELSE @,
        !.birthdayMonth = IF b.birthdayMonth.t # "undefined" THEN b.birthdayMonth.n ELSE @,
        !.birthdayDay = IF b.birthdayDay.t # "undefined" THEN b.birthdayDay.n ELSE @]

\* the synchronous start of a handler that goes through getAuthenticatedUser:
\* without a Clerk user id it answers 401, otherwise it awaits the users query
authenticate(r) ==
    IF r.auth = NoAuth THEN Finish(r, Unauthorized)
    ELSE [r EXCEPT !.pc = "selectUser"]

getContacts(p, a) ==
    /\ CanReceive(p)
    /\ received' = received + 1
    /\ req' = [req EXCEPT ![p] =
            authenticate(NewReq("getContacts", a, NullId, EmptyBody, "undefined"))]
    /\ UNCHANGED <<users, contactsBirthdays, nextUserId, nextContactId, now, createdBy>>

getContactById(p, a, i) ==
    /\ CanReceive(p)
    /\ received' = received + 1
    /\ req' = [req EXCEPT ![p] =
            authenticate(NewReq("getContactById", a, i, EmptyBody, "undefined"))]
    /\ UNCHANGED <<users, contactsBirthdays, nextUserId, nextContactId, now, createdBy>>

createContact(p, a, b) ==
    /\ CanReceive(p)
    /\ received' = received + 1
    /\ LET r == NewReq("createContact", a, NullId, b, "undefined")
       IN  req' = [req EXCEPT ![p] =
                IF ~createContactSchema(b)
                THEN Finish(r, ValidationFailed(createContactIssues(b)))
                ELSE authenticate(r)]
    /\ UNCHANGED <<users, contactsBirthdays, nextUserId, nextContactId, now, createdBy>>

updateContact(p, a, i, b) ==
    /\ CanReceive(p)
    /\ received' = received + 1
    /\ LET r == NewReq("updateContact", a, i, b, "undefined")
       IN  req' = [req EXCEPT ![p] =
                IF ~updateContactSchema(b)
                THEN Finish(r, ValidationFailed(updateContactIssues(b)))
                ELSE authenticate(r)]
    /\ UNCHANGED <<users, contactsBirthdays, nextUserId, nextContactId, now, createdBy>>

deleteContact(p, a, i) ==
    /\ CanReceive(p)
    /\ received' = received + 1
    /\ req' = [req EXCEPT ![p] =
            authenticate(NewReq("deleteContact", a, i, EmptyBody, "undefined"))]
    /\ UNCHANGED <<users, contactsBirthdays, nextUserId, nextContactId, now, createdBy>>

\* the handler's next await once getAuthenticatedUser returned the user
afterAuthentication(kind) ==
    CASE kind = "getContacts" -> "selectContacts"
      [] kind = "createContact" -> "insert"
      [] OTHER -> "selectContact"

\* getAuthenticatedUser's query resolves
getAuthenticatedUser(p) ==
    /\ CanStep(p, "selectUser")
    /\ LET r == [req[p] EXCEPT !.dbOps = @ + 1]
           userRecord == {u \in users : u.clerkUserId = r.auth}
       IN  req' = [req EXCEPT ![p] =
                IF userRecord = {} THEN Finish(r, UserNotFound)
                ELSE [r EXCEPT !.user = (CHOOSE u \in userRecord : TRUE).id,
                               !.pc = afterAuthentication(r.kind)]]
    /\ UNCHANGED <<users, contactsBirthdays, nextUserId, nextContactId, now, received, createdBy>>

selectContacts(p) ==
    /\ CanStep(p, "selectContacts")
    /\ LET r == [req[p] EXCEPT !.dbOps = @ + 1]
           contacts == {c \in contactsBirthdays : c.userId = r.user}
       IN  req' = [req EXCEPT ![p] = Finish(r, Resp(200, "", {}, contacts))]
    /\ UNCHANGED <<users, contactsBirthdays, nextUserId, nextContactId, now, received, createdBy>>

insertContact(p) ==
    /\ CanStep(p, "insert")
    /\ LET r == [req[p] EXCEPT !.dbOps = @ + 1]
           newContact == insertedRow(insertValues(r.user, r.body), nextContactId, now)
       IN  /\ contactsBirthdays' = contactsBirthdays \cup {newContact}
           /\ createdBy' = [createdBy EXCEPT ![nextContactId] = r.auth]
           /\ req' = [req EXCEPT ![p] = Finish(r, Resp(201, "", {}, {newContact}))]
    /\ nextContactId' = nextContactId + 1
    /\ now' = now + 1
    /\ UNCHANGED <<users, nextUserId, received>>

\* the existence check of getContactById, updateContact and deleteContact
\* resolves; updateContact goes on to build updateData with new Date()
selectContact(p) ==
    /\ CanStep(p, "selectContact")
    /\ LET r == [req[p] EXCEPT !.dbOps = @ + 1]
           existing == {c \in contactsBirthdays : whereIdAndUser(c, r.id, r.user)}
           isUpdate == r.kind = "updateContact" /\ existing # {}
       IN  /\ req' = [req EXCEPT ![p] =
                IF existing = {} THEN Finish(r, ContactNotFound)
                ELSE IF r.kind = "getContactById"
                     THEN Finish(r, Resp(200, "", {}, existing))
                ELSE IF r.kind = "updateContact"
                     THEN [r EXCEPT !.pc = "update", !.t = now,
                              !.seen = (CHOOSE c \in existing : TRUE).updatedAt]
                ELSE [r EXCEPT !.pc = "delete"]]
           /\ now' = IF isUpdate THEN now + 1 ELSE now
    /\ UNCHANGED <<users, contactsBirthdays, nextUserId, nextContactId, received, createdBy>>

\* db.update(...).set(updateData).where(...).returning(); res.json(updated[0])
updateWrite(p) ==
    /\ CanStep(p, "update")
    /\ LET r == [req[p] EXCEPT !.dbOps = @ + 1]
           hit == {c \in contactsBirthdays : whereIdAndUser(c, r.id, r.user)}
           updatedContact == {setUpdateData(c, r.body, r.t) : c \in hit}
       IN  /\ contactsBirthdays' = (contactsBirthdays \ hit) \cup updatedContact
           /\ req' = [req EXCEPT ![p] = Finish(r, Resp(200, "", {}, updatedContact))]
    /\ UNCHANGED <<users, nextUserId, nextContactId, now, received, createdBy>>

\* db.delete(...).where(...); res.status(204).send()
deleteWrite(p) ==
    /\ CanStep(p, "delete")
    /\ LET r == [req[p] EXCEPT !.dbOps = @ + 1]
           hit == {c \in contactsBirthdays : whereIdAndUser(c, r.id, r.user)}
       IN  /\ contactsBirthdays' = contactsBirthdays \ hit
           /\ req' = [req EXCEPT ![p] = Finish(r, Resp(204, "", {}, {}))]
    /\ UNCHANGED <<users, nextUserId, nextContactId, now, received, createdBy>>

\* --------------------------------------------------- assistantController
MONTH_NAMES ==
    << "January", "February", "March", "April", "May", "June",
       "July", "August", "September", "October", "November", "December" >>

StepLimit == 3      \* stopWhen: stepCountIs(3)

\* JavaScript's array[i], counted from 0
At(array, i) == array[i + 1]

\* JavaScript truthiness of a nullable integer column
Truthy(v) == v.t = "int" /\ v.n # 0

formatContact(contact) ==
    LET birthday ==
            At(MONTH_NAMES, contact.birthdayMonth - 1) \o " "
            \o ToString(contact.birthdayDay)
            \o (IF Truthy(contact.birthdayYear)
                THEN ", " \o ToString(contact.birthdayYear.n) ELSE "")
        notes == ""     \* the row has no notes column: contact.notes is undefined
    IN  "- " \o contact.name \o ": " \o birthday \o notes

\* contacts.map(formatContact).join('\n'), the rows taken in the order of id
RECURSIVE joinLines(_)
joinLines(rows) ==
    IF rows = {} THEN ""
    ELSE LET first == CHOOSE c \in rows : \A d \in rows : c.id <= d.id
             rest == rows \ {first}
         IN  formatContact(first)
             \o (IF rest = {} THEN "" ELSE "\n" \o joinLines(rest))

UserNotFoundText == "User not found. Please ensure you are logged in."
NoContactsText == "No contacts found. The user hasn't added any birthdays yet."

\* what getContacts' execute returns for the rows it read
toolResult(userId, contacts) ==
    IF userId = NullId THEN UserNotFoundText
    ELSE IF Cardinality(contacts) = 0 THEN NoContactsText
    ELSE ToString(Cardinality(contacts)) \o " contact(s):\n" \o joinLines(contacts)

\* mutant: only !messages
messagesFalsy(m) == m \in {"undefined", "null", "emptyString"}

\* !messages || !Array.isArray(messages)
messagesRejected(m) ==
    \/ m \in {"undefined", "null", "emptyString"}
    \/ m \notin {"emptyArray", "array"}

\* the checks of chatWithAssistant before its first await: the response that
\* rejects the request, or NoResp
chatRejection(m, a) ==
    IF messagesRejected(m) THEN MessagesRequired
    ELSE IF a = NoAuth THEN Unauthorized
    ELSE NoResp

\* mutant: the count is compared before the step is added
stepCountWas(n, steps) == steps - 1 = n

\* stopWhen: the generation loop stops after a step once it holds
stepCountIs(n, steps) == steps = n

chatWithAssistant(p, a, m) ==
    /\ CanReceive(p)
    /\ received' = received + 1
    /\ LET r == NewReq("chatWithAssistant", a, NullId, EmptyBody, m)
       IN  req' = [req EXCEPT ![p] =
                IF chatRejection(m, a) # NoResp THEN Finish(r, chatRejection(m, a))
                ELSE [r EXCEPT !.pc = "getUserId"]]
    /\ UNCHANGED <<users, contactsBirthdays, nextUserId, nextContactId, now, createdBy>>

\* getUserId resolves; streamText starts the generation
getUserId(p) ==
    /\ CanStep(p, "getUserId")
    /\ LET r == [req[p] EXCEPT !.dbOps = @ + 1]
           userRecord == {u \in users : u.clerkUserId = r.auth}
       IN  req' = [req EXCEPT ![p] =
                [r EXCEPT !.pc = "model",
                          !.user = IF userRecord = {} THEN NullId
                                   ELSE (CHOOSE u \in userRecord : TRUE).id]]
    /\ UNCHANGED <<users, contactsBirthdays, nextUserId, nextContactId, now, received, createdBy>>

\* one model invocation; the model answers with text, which ends the
\* generation, or asks for the getContacts tool
modelStep(p, asksTool) ==
    /\ CanStep(p, "model")
    /\ LET r == [req[p] EXCEPT !.modelCalls = @ + 1]
       IN  req' = [req EXCEPT ![p] =
                IF asksTool THEN [r EXCEPT !.pc = "tool"]
                ELSE Finish(r, Resp(200, "", {}, {}))]
    /\ UNCHANGED <<users, contactsBirthdays, nextUserId, nextContactId, now, received, createdBy>>

\* the tool's execute runs; the loop goes on unless stopWhen holds
toolExecute(p) ==
    /\ CanStep(p, "tool")
    /\ LET r == req[p]
           contacts == IF r.user = NullId THEN {}
                       ELSE {c \in contactsBirthdays : c.userId = r.user}
           s == [r EXCEPT !.toolCalls = @ + 1,
                          !.dbOps = IF r.user = NullId THEN @ ELSE @ + 1,
                          !.rows = contacts,
                          !.toolOut = toolResult(r.user, contacts)]
       IN  req' = [req EXCEPT ![p] =
                IF stepCountIs(StepLimit, s.modelCalls)
                THEN Finish(s, Resp(200, "", {}, {}))
                ELSE [s EXCEPT !.pc = "model"]]
    /\ UNCHANGED <<users, contactsBirthdays, nextUserId, nextContactId, now, received, createdBy>>

\* ----------------------------------------------------------- specification
Next ==
    \/ \E p \in Procs : Deliver(p)
    \/ \E p \in Procs, a \in Auths : syncUser(p, a)
    \/ \E p \in Procs, e \in Emails : clerkGetUser(p, e)
    \/ \E p \in Procs : clerkGetUserFails(p)
    \/ \E p \in Procs : upsert(p)
    \/ \E p \in Procs, a \in Auths : getContacts(p, a)
    \/ \E p \in Procs, a \in Auths, i \in ParamIds : getContactById(p, a, i)
    \/ \E p \in Procs, a \in Auths, b \in CreateBodies : createContact(p, a, b)
    \/ \E p \in Procs, a \in Auths, i \in ParamIds, b \in UpdateBodies :
            updateContact(p, a, i, b)
    \/ \E p \in Procs, a \in Auths, i \in ParamIds : deleteContact(p, a, i)
    \/ \E p \in Procs : getAuthenticatedUser(p)
    \/ \E p \in Procs : selectContacts(p)
    \/ \E p \in Procs : insertContact(p)
    \/ \E p \in Procs : selectContact(p)
    \/ \E p \in Procs : updateWrite(p)
    \/ \E p \in Procs : deleteWrite(p)

Spec == Init /\ [][Next]_vars

\* the assistant endpoint, with the requests that fill the store it reads
AssistantNext ==
    \/ \E p \in Procs : Deliver(p)
    \/ \E p \in Procs, a \in Auths : syncUser(p, a)
    \/ \E p \in Procs, e \in Emails : clerkGetUser(p, e)
    \/ \E p \in Procs : clerkGetUserFails(p)
    \/ \E p \in Procs : upsert(p)
    \/ \E p \in Procs, a \in Auths, b \in CreateBodies : createContact(p, a, b)
    \/ \E p \in Procs : getAuthenticatedUser(p)
    \/ \E p \in Procs : insertContact(p)
    \/ \E p \in Procs, a \in Auths, m \in MessageValues : chatWithAssistant(p, a, m)
    \/ \E p \in Procs : getUserId(p)
    \/ \E p \in Procs, asksTool \in BOOLEAN : modelStep(p, asksTool)
    \/ \E p \in Procs : toolExecute(p)

AssistantSpec == Init /\ [][AssistantNext]_vars

\* ------------------------------------------------------------ properties
\* the process that takes the step
Acting(p) == req'[p] # req[p]

ByIdKinds == {"getContactById", "updateContact", "deleteContact"}

\* the request of process p addresses a contact that its caller did not
\* create: one created by somebody else, or an id no contact ever had
AddressesForeignOrMissing(r) ==
    /\ r.kind \in ByIdKinds
    /\ r.auth # NoAuth
    /\ createdBy[r.id] # r.auth

\* C1: a GET, PUT (valid body) or DELETE by id issued by user B for a contact
\* of another user A never returns, changes or removes the contact, and B is
\* answered the same 404 as for an id that no contact ever had; a contact
\* row is changed or removed only by a request of the identity that created it
IsolationStep ==
    /\ \A p \in Procs :
        ( /\ req'[p].pc = "done"
          /\ req'[p].resp.status # 400
          /\ AddressesForeignOrMissing(req'[p]) )
        => req'[p].resp =
              IF req'[p].user = NullId THEN UserNotFound ELSE ContactNotFound
    /\ \A c \in contactsBirthdays :
        c \notin contactsBirthdays'
        => \E p \in Procs : Acting(p) /\ req[p].auth = createdBy[c.id]

ContactIsolation == [][IsolationStep]_vars

\* C1 witness: user B, who has a users row, was answered "Contact not found"
\* for the id of a stored contact that another user created
ForeignContactRefused ==
    \E p \in Procs, c \in contactsBirthdays :
        /\ req[p].pc = "done"
        /\ req[p].kind \in ByIdKinds
        /\ req[p].id = c.id
        /\ req[p].auth \notin {NoAuth, createdBy[c.id]}
        /\ req[p].user # NullId
        /\ req[p].resp = ContactNotFound

\* the upsert of process p runs in this step
UpsertStep(p) == req[p].pc = "upsert" /\ req'[p].pc = "done"

\* C2: the users table holds at most one row per external identity; the
\* first sync of an identity adds one row, and a later sync of it keeps the
\* number of rows, the row's id and createdAt, sets its updatedAt to the
\* sync's time and its email to the identity's email (when it has one), and
\* leaves every other row as it was
SyncStep ==
    /\ \A u, v \in users' : u.clerkUserId = v.clerkUserId => u = v
    /\ \A u \in users : \E v \in users' : v.id = u.id /\ v.clerkUserId = u.clerkUserId
    /\ \A p \in Procs :
        UpsertStep(p) =>
            LET old == {u \in users : u.clerkUserId = req[p].auth}
                new == {u \in users' : u.clerkUserId = req[p].auth}
            IN  /\ req'[p].resp.status = 200
                /\ Cardinality(new) = 1
                /\ users' \ new = users \ old
                /\ old = {} => Cardinality(users') = Cardinality(users) + 1
                /\ old # {} =>
                    /\ Cardinality(users') = Cardinality(users)
                    /\ \A u \in old, v \in new :
                        /\ v.id = u.id
                        /\ v.createdAt = u.createdAt
                        /\ v.updatedAt = req[p].t
                        /\ req[p].email # NoEmail => v.email = req[p].email

UpdateHits(p, c) ==
    /\ req[p].pc = "update" /\ req'[p].pc = "done"
    /\ c \in contactsBirthdays
    /\ c.id = req[p].id

Supplied(b) == {f \in Fields : b[f].t # "undefined"}

\* the value a supplied body field stores in its column
Stored(b, f) ==
    CASE f = "name" -> b.name.s
      [] f = "birthdayYear" -> b.birthdayYear
      [] OTHER -> b[f].n

\* a PUT that supplies exactly one field changes that field of its contact
\* and nothing else but updatedAt, in the store and in the record it returns
OneFieldFrame(p, c) ==
    \E f \in Fields :
        /\ Supplied(req[p].body) = {f}
        /\ \E d \in contactsBirthdays' :
            /\ d.id = c.id /\ d.userId = c.userId /\ d.createdAt = c.createdAt
            /\ d[f] = Stored(req[p].body, f)
            /\ \A g \in Fields \ {f} : d[g] = c[g]
            /\ contactsBirthdays' \ {d} = contactsBirthdays \ {c}
            /\ req'[p].resp = Resp(200, "", {}, {d})
        /\ users' = users

\* C3 as stated: a successful PUT that supplies exactly one field changes
\* only that field and updatedAt of its contact, leaves every other contact
\* unchanged, and updatedAt advances
OneFieldUpdateAdvancesStep ==
    \A p \in Procs, c \in contactsBirthdays :
        (UpdateHits(p, c) /\ Cardinality(Supplied(req[p].body)) = 1)
        => /\ OneFieldFrame(p, c)
           /\ \A d \in contactsBirthdays' : d.id = c.id => d.updatedAt > c.updatedAt

OneFieldUpdateAdvances == [][OneFieldUpdateAdvancesStep]_vars

\* C3 amended: a successful PUT that supplies exactly one field changes only
\* that field and updatedAt of its contact and leaves every other contact
\* unchanged; updatedAt becomes the time the PUT read after its existence
\* check, which is later than the updatedAt that check saw
OneFieldUpdateStep ==
    \A p \in Procs, c \in contactsBirthdays :
        (UpdateHits(p, c) /\ Cardinality(Supplied(req[p].body)) = 1)
        => /\ OneFieldFrame(p, c)
           /\ \A d \in contactsBirthdays' :
                d.id = c.id => d.updatedAt = req[p].t /\ d.updatedAt > req[p].seen

OneFieldUpdate == [][OneFieldUpdateStep]_vars

\* C3 witness: a PUT of one field answered 200 with the updated record while
\* a second contact is stored
OneFieldUpdated ==
    \E p \in Procs :
        /\ req[p].pc = "done" /\ req[p].kind = "updateContact"
        /\ Cardinality(Supplied(req[p].body)) = 1
        /\ req[p].resp.status = 200
        /\ req[p].resp.data # {}
        /\ req[p].resp.data \subseteq contactsBirthdays
        /\ Cardinality(contactsBirthdays) = 2

\* C4: every endpoint answers 401 to a request without a verified identity,
\* whatever its body
NoIdentityIs401 ==
    \A p \in Procs :
        (req[p].pc = "done" /\ req[p].auth = NoAuth) => req[p].resp.status = 401

\* the validation failures of a POST body
BadCreateBody(b) ==
    \/ b.name.t # "string" \/ b.name.s = ""
    \/ b.birthdayMonth.t # "int" \/ b.birthdayMonth.n \notin 1 .. 12
    \/ b.birthdayDay.t # "int" \/ b.birthdayDay.n \notin 1 .. 31
    \/ b.birthdayYear.t \in {"frac", "string"}

\* the validation failures of a PUT body
BadUpdateBody(b) ==
    \/ b.name.t # "undefined" /\ (b.name.t # "string" \/ b.name.s = "")
    \/ b.birthdayMonth.t # "undefined"
        /\ (b.birthdayMonth.t # "int" \/ b.birthdayMonth.n \notin 1 .. 12)
    \/ b.birthdayDay.t # "undefined"
        /\ (b.birthdayDay.t # "int" \/ b.birthdayDay.n \notin 1 .. 31)
    \/ b.birthdayYear.t \in {"frac", "string"}
    \/ \A f \in Fields : b[f].t = "undefined"

\* a body of the given kind with month 2 and day 31 and no failure
IsFebruary31(kind, b) ==
    /\ b.birthdayMonth = Num(2) /\ b.birthdayDay = Num(31)
    /\ IF kind = "createContact" THEN ~BadCreateBody(b) ELSE ~BadUpdateBody(b)

\* process p receives a request in this step
Receives(p) == req[p].pc = "idle" /\ req'[p].pc # "idle"

\* C5: a POST or PUT whose body fails validation is answered 400 in the step
\* that receives it, before any access to the store, and both tables are left
\* unchanged; no request answered 400 has accessed the store; a body with
\* month 2 and day 31 is not answered 400
ValidationFirstStep ==
    \A p \in Procs :
        /\ ( /\ Receives(p)
             /\ \/ req'[p].kind = "createContact" /\ BadCreateBody(req'[p].body)
                \/ req'[p].kind = "updateContact" /\ BadUpdateBody(req'[p].body) )
            => /\ req'[p].pc = "done"
               /\ req'[p].resp.status = 400
               /\ req'[p].resp.errors # {}
               /\ users' = users
               /\ contactsBirthdays' = contactsBirthdays
        /\ req'[p].resp.status = 400 => req'[p].dbOps = 0
        /\ ( /\ req'[p].kind \in {"createContact", "updateContact"}
             /\ IsFebruary31(req'[p].kind, req'[p].body) )
            => req'[p].resp.status # 400

ValidationFirst == [][ValidationFirstStep]_vars

\* C5 witness: a contact with month 2 and day 31 is stored and a request of
\* its owner with a failing body was answered 400
RejectedNextToFebruary31 ==
    \E p \in Procs, c \in contactsBirthdays :
        /\ c.birthdayMonth = 2 /\ c.birthdayDay = 31
        /\ req[p].pc = "done"
        /\ req[p].kind \in {"createContact", "updateContact"}
        /\ req[p].auth = createdBy[c.id]
        /\ req[p].resp.status = 400

\* C9: every contact row is owned by an existing users row, and that row is
\* the one of the identity whose request created the contact
OwnerIsCreator ==
    \A c \in contactsBirthdays :
        \E u \in users : u.id = c.userId /\ u.clerkUserId = createdBy[c.id]

\* C9 witness: two users have a row and a stored contact has been updated
UpdatedContactHasOwner ==
    \E c \in contactsBirthdays :
        /\ c.updatedAt # c.createdAt
        /\ Cardinality(users) = 2

\* C10: a PUT with a valid body by the contact's owner answers 404 or 200,
\* and a 200 carries the updated record
PutAnswers404OrRecord ==
    \A p \in Procs :
        ( /\ req[p].pc = "done" /\ req[p].kind = "updateContact"
          /\ req[p].user # NullId )
        => \/ req[p].resp = ContactNotFound
           \/ req[p].resp.status = 200 /\ req[p].resp.data # {}

\* the chat request of process p has passed the handler's checks
ChatAdmitted(r) ==
    \/ r.pc \in {"getUserId", "model", "tool"}
    \/ r.modelCalls > 0 \/ r.toolCalls > 0 \/ r.dbOps > 0

\* C6: a chat request whose messages are missing or not a list is answered
\* 400, one without caller identity 401, and a request so rejected has not
\* invoked the model, executed the tool or read the store
ChatRejectedBeforeModel ==
    \A p \in Procs :
        req[p].kind = "chatWithAssistant" =>
            /\ req[p].messages \notin {"emptyArray", "array"}
                => req[p].pc = "done" /\ req[p].resp.status = 400
            /\ (req[p].messages \in {"emptyArray", "array"} /\ req[p].auth = NoAuth)
                => req[p].pc = "done" /\ req[p].resp.status = 401
            /\ req[p].resp.status \in {400, 401} => ~ChatAdmitted(req[p])

\* C6 witness: a chat request with a string for messages, sent by a user
\* with a stored contact, was answered 400
StringMessagesRejected ==
    \E p \in Procs, c \in contactsBirthdays :
        /\ req[p].pc = "done" /\ req[p].kind = "chatWithAssistant"
        /\ req[p].messages = "string"
        /\ req[p].auth = createdBy[c.id]
        /\ req[p].resp.status = 400

\* C7: one chat request invokes the model at most 3 times and executes the
\* tool at most 3 times; while the loop is waiting for the model fewer than
\* 3 invocations have been made, so the loop ends after at most 3 rounds
AtMostThreeSteps ==
    \A p \in Procs :
        /\ req[p].modelCalls <= 3
        /\ req[p].toolCalls <= req[p].modelCalls
        /\ req[p].pc = "model" => req[p].modelCalls < 3
        /\ req[p].pc = "tool" => req[p].toolCalls < req[p].modelCalls

\* C7 witness: a request whose model asked for the tool at every step has
\* ended after 3 invocations and 3 tool executions
StoppedAfterThreeToolCalls ==
    \E p \in Procs :
        /\ req[p].pc = "done" /\ req[p].kind = "chatWithAssistant"
        /\ req[p].modelCalls = 3 /\ req[p].toolCalls = 3
        /\ req[p].resp.status = 200

EnglishMonth(m) ==
    CASE m = 1 -> "January" [] m = 2 -> "February" [] m = 3 -> "March"
      [] m = 4 -> "April" [] m = 5 -> "May" [] m = 6 -> "June"
      [] m = 7 -> "July" [] m = 8 -> "August" [] m = 9 -> "September"
      [] m = 10 -> "October" [] m = 11 -> "November" [] m = 12 -> "December"

\* '- <name>: <MonthName> <day>', then ', <year>' iff the year is present
ExpectedLine(c) ==
    "- " \o c.name \o ": " \o EnglishMonth(c.birthdayMonth) \o " "
    \o ToString(c.birthdayDay)
    \o (IF c.birthdayYear.t = "int" THEN ", " \o ToString(c.birthdayYear.n) ELSE "")

RECURSIVE ExpectedLines(_)
ExpectedLines(rows) ==
    IF rows = {} THEN ""
    ELSE LET first == CHOOSE c \in rows : \A d \in rows : c.id <= d.id
             rest == rows \ {first}
         IN  ExpectedLine(first)
             \o (IF rest = {} THEN "" ELSE "\n" \o ExpectedLines(rest))

\* C8: the tool renders every contact it read as '- <name>: <MonthName> <day>'
\* followed by ', <year>' if and only if the contact has a birth year
ToolRendersYearIffPresent ==
    \A p \in Procs :
        req[p].rows # {} =>
            req[p].toolOut =
                ToString(Cardinality(req[p].rows)) \o " contact(s):\n"
                \o ExpectedLines(req[p].rows)

====
